---- MODULE Spec2Model ----
(***************************************************************************)
(* brs2rbxl: conversion of Brickadia bricks into Roblox instances.         *)
(*                                                                         *)
(* Numbers.  Lengths (sizes, offsets, positions) are held in tenths of a   *)
(* stud, so the literals of part.rs read 1.0 -> 10, 0.5 -> 5, 0.2 -> 2,    *)
(* 0.1 -> 1, and `x as f32 / 5.0` is (x * 10) \div 5.  Transparency is in  *)
(* tenths, colour channels in thousandths.  Angles are whole quarter turns *)
(* (PI * 0.5 is 1, PI is 2, -PI * 0.5 is -1) whose cosine and sine are     *)
(* taken as the exact values 0, 1, -1.  Rotation entries are plain         *)
(* integers.  f32 rounding is not modelled.                                *)
(***************************************************************************)
EXTENDS Integers, Sequences, FiniteSets, TLC

\* ------------------------------------------------------------------ bounds
MaxBricks == 2
MaxDim == 7

\* ------------------------------------------------------- cframe.rs algebra
CoordinateFrame_default ==
    << <<1, 0, 0, 0>>, <<0, 1, 0, 0>>, <<0, 0, 1, 0>>, <<0, 0, 0, 1>> >>

CoordinateFrame_new(x, y, z) ==
    << <<1, 0, 0, x>>, <<0, 1, 0, y>>, <<0, 0, 1, z>>, <<0, 0, 0, 1>> >>

from_rotation(x, y, z, rot) ==
    << <<rot[1], rot[2], rot[3], x>>,
       <<rot[4], rot[5], rot[6], y>>,
       <<rot[7], rot[8], rot[9], z>>,
       <<0, 0, 0, 1>> >>

\* cosine and sine of `angle` quarter turns
cos(angle) ==
    CASE angle % 4 = 0 -> 1 [] angle % 4 = 1 -> 0 [] angle % 4 = 2 -> -1 [] OTHER -> 0

sin(angle) ==
    CASE angle % 4 = 0 -> 0 [] angle % 4 = 1 -> 1 [] angle % 4 = 2 -> 0 [] OTHER -> -1

rx(angle) ==
    << <<1, 0, 0, 0>>,
       <<0, cos(angle), -sin(angle), 0>>,
       <<0, sin(angle), cos(angle), 0>>,
       <<0, 0, 0, 1>> >>

ry(angle) ==
    << <<cos(angle), 0, sin(angle), 0>>,
       <<0, 1, 0, 0>>,
       <<-sin(angle), 0, cos(angle), 0>>,
       <<0, 0, 0, 1>> >>

rz(angle) ==
    << <<cos(angle), -sin(angle), 0, 0>>,
       <<sin(angle), cos(angle), 0, 0>>,
       <<0, 0, 1, 0>>,
       <<0, 0, 0, 1>> >>

position(m) == <<m[1][4], m[2][4], m[3][4]>>

rotation_matrix(m) ==
    << <<m[1][1], m[1][2], m[1][3]>>,
       <<m[2][1], m[2][2], m[2][3]>>,
       <<m[3][1], m[3][2], m[3][3]>> >>

\* matrix[i][j] += a[i][k] * b[k][j] for k in 0..4
mulEntry(a, b, i, j) ==
    a[i][1] * b[1][j] + a[i][2] * b[2][j] + a[i][3] * b[3][j] + a[i][4] * b[4][j]

mulRow(a, b, i) ==
    <<mulEntry(a, b, i, 1), mulEntry(a, b, i, 2), mulEntry(a, b, i, 3), mulEntry(a, b, i, 4)>>

\* mul with its operands exchanged
mul_swapped(a, b) == <<mulRow(b, a, 1), mulRow(b, a, 2), mulRow(b, a, 3), mulRow(b, a, 4)>>

mul(a, b) == <<mulRow(a, b, 1), mulRow(a, b, 2), mulRow(a, b, 3), mulRow(a, b, 4)>>

\* impl From<CoordinateFrame> for CFrame
CFrame_from(value) ==
    [position |-> position(value), orientation |-> rotation_matrix(value)]

\* ------------------------------------------------------ orientation table
\* rm! with the last index mistyped
rm_slip(r, u, f) == <<r[1], u[1], -f[1], r[2], u[2], -f[2], r[3], u[3], -f[2]>>

rm(r, u, f) == <<r[1], u[1], -f[1], r[2], u[2], -f[2], r[3], u[3], -f[3]>>

ORIENTATION_MAP ==
    << rm(<<0, -1, 0>>, <<1, 0, 0>>, <<0, 0, -1>>),
       rm(<<0, 0, 1>>, <<1, 0, 0>>, <<0, -1, 0>>),
       rm(<<0, 1, 0>>, <<1, 0, 0>>, <<0, 0, 1>>),
       rm(<<0, 0, -1>>, <<1, 0, 0>>, <<0, 1, 0>>),
       rm(<<0, -1, 0>>, <<-1, 0, 0>>, <<0, 0, 1>>),
       rm(<<0, 0, -1>>, <<-1, 0, 0>>, <<0, -1, 0>>),
       rm(<<0, 1, 0>>, <<-1, 0, 0>>, <<0, 0, -1>>),
       rm(<<0, 0, 1>>, <<-1, 0, 0>>, <<0, 1, 0>>),
       rm(<<0, -1, 0>>, <<0, 0, 1>>, <<1, 0, 0>>),
       rm(<<-1, 0, 0>>, <<0, 0, 1>>, <<0, -1, 0>>),
       rm(<<0, 1, 0>>, <<0, 0, 1>>, <<-1, 0, 0>>),
       rm(<<1, 0, 0>>, <<0, 0, 1>>, <<0, 1, 0>>),
       rm(<<0, -1, 0>>, <<0, 0, -1>>, <<-1, 0, 0>>),
       rm(<<1, 0, 0>>, <<0, 0, -1>>, <<0, -1, 0>>),
       rm(<<0, 1, 0>>, <<0, 0, -1>>, <<1, 0, 0>>),
       rm(<<-1, 0, 0>>, <<0, 0, -1>>, <<0, 1, 0>>),
       rm(<<-1, 0, 0>>, <<0, 1, 0>>, <<0, 0, 1>>),
       rm(<<0, 0, -1>>, <<0, 1, 0>>, <<-1, 0, 0>>),
       rm(<<1, 0, 0>>, <<0, 1, 0>>, <<0, 0, -1>>),
       rm(<<0, 0, 1>>, <<0, 1, 0>>, <<1, 0, 0>>),
       rm(<<1, 0, 0>>, <<0, -1, 0>>, <<0, 0, 1>>),
       rm(<<0, 0, -1>>, <<0, -1, 0>>, <<1, 0, 0>>),
       rm(<<-1, 0, 0>>, <<0, -1, 0>>, <<0, 0, -1>>),
       rm(<<0, 0, 1>>, <<0, -1, 0>>, <<-1, 0, 0>>) >>

\* u8 arithmetic of `(direction as u8) << 2 | (rotation as u8)`
RECURSIVE BitOr(_, _)
BitOr(a, b) ==
    IF a = 0 THEN b
    ELSE IF b = 0 THEN a
    ELSE (IF a % 2 = 1 \/ b % 2 = 1 THEN 1 ELSE 0) + 2 * BitOr(a \div 2, b \div 2)

Shl2(a) == (a * 4) % 256

\* the index with the direction shifted by one bit only
OrientationIndex_shift1(brick) == BitOr((brick.direction * 2) % 256, brick.rotation)

\* the usize index of line 122 (0-based)
OrientationIndex(brick) == BitOr(Shl2(brick.direction), brick.rotation)

\* ORIENTATION_MAP[..] of a 0-based index
mat_comp(brick) == ORIENTATION_MAP[OrientationIndex(brick) + 1]

\* ------------------------------------------------------------ input shapes
\* brickadia::save::UnrealType values of a component bag; `tag` is the variant
\* ("Absent" stands for a key the bag does not hold)
Absent == [tag |-> "Absent", f |-> 0, b |-> FALSE, c |-> <<0, 0, 0>>]
UFloat(v) == [tag |-> "Float", f |-> v, b |-> FALSE, c |-> <<0, 0, 0>>]
UBoolean(v) == [tag |-> "Boolean", f |-> 0, b |-> v, c |-> <<0, 0, 0>>]
UColor(v) == [tag |-> "Color", f |-> 0, b |-> FALSE, c |-> v]

\* component_property!(component, field, variant, default)
component_property(component, field, variant, default) ==
    IF component[field].tag = variant THEN component[field] ELSE default

\* ------------------------------------------------------------------ PartDef
PartDef_default ==
    [class |-> "Part", offset |-> CoordinateFrame_default, size |-> <<0, 0, 0>>,
     color |-> [some |-> FALSE, c |-> <<0, 0, 0>>], properties |-> <<>>]

PartDef_new(class) == [PartDef_default EXCEPT !.class = class]

\* cf composing the new transform on the left
cf_reversed(self, c) == [self EXCEPT !.offset = mul(c, self.offset)]

cf(self, c) == [self EXCEPT !.offset = mul(self.offset, c)]

offset(self, x, y, z) == cf(self, CoordinateFrame_new(x, y, z))

size(self, x, y, z) == [self EXCEPT !.size = <<x, y, z>>]

property(self, key, value) == [self EXCEPT !.properties = (key :> value) @@ @]

\* rbx_dom_weak::InstanceBuilder: new, add_property (last write wins), add_child
InstanceBuilder_new(class) ==
    [class |-> class, name |-> <<class>>, props |-> <<>>, children |-> <<>>]

add_property(instance, key, value) ==
    [instance EXCEPT !.props = (key :> value) @@ @]

add_child(instance, child) ==
    [instance EXCEPT !.children = Append(@, child)]

with_name(instance, name) == [instance EXCEPT !.name = name]

\* (c / 255) ^ (1 / 2.4) in thousandths, at the channel values the palettes use
powf(c) ==
    CASE c = 64 -> 562 [] c = 128 -> 750 [] c = 255 -> 1000

\* linear_to_srgb(c as f32 / 255.0) of a channel c in 0..255, in thousandths:
\* c / 255 > 0.0031308 is c * 10^6 > 798354
linear_to_srgb(c) ==
    IF c * 1000000 > 798354
    THEN (1055 * powf(c)) \div 1000 - 55
    ELSE (1292 * ((c * 1000) \div 255)) \div 100

Color3_new(c) == <<linear_to_srgb(c[1]), linear_to_srgb(c[2]), linear_to_srgb(c[3])>>

\* the color of line 137: the PartDef's own, else the brick's
part_color(self, save, brick) ==
    IF self.color.some THEN self.color.c
    ELSE IF brick.color.kind = "Index" THEN save.header2.colors[brick.color.idx + 1]
    ELSE brick.color.c

\* the indexing operations of to_instance that panic
to_instance_panics(self, save, brick) ==
    \/ /\ ~self.color.some
       /\ brick.color.kind = "Index"
       /\ brick.color.idx >= Len(save.header2.colors)
    \/ /\ brick.visibility
       /\ brick.material_index >= Len(save.header2.materials)
    \/ /\ brick.components.BCD_PointLight.present
       /\ brick.components.BCD_PointLight.bag["bUseBrickColor"].tag = "Absent"

\* the material policy with the visibility test done first and then overwritten
write_material_unguarded(instance, save, brick) ==
    LET i0 == IF brick.visibility THEN instance
              ELSE add_property(instance, "Transparency", 10)
        m == IF brick.material_index < Len(save.header2.materials)
             THEN save.header2.materials[brick.material_index + 1] ELSE "" IN
    CASE m \in {"BMC_Ghost", "BMC_Ghost_Fail"} ->
           add_property(add_property(i0, "Material", 288), "Transparency", 5)
      [] m = "BMC_Glass" -> add_property(i0, "Transparency", 10 - brick.material_intensity)
      [] OTHER -> i0

\* lines 149..167 of part.rs
write_material(instance, save, brick) ==
    IF brick.visibility
    THEN LET m == save.header2.materials[brick.material_index + 1] IN
         CASE m \in {"BMC_Ghost", "BMC_Ghost_Fail"} ->
                add_property(add_property(instance, "Material", 288), "Transparency", 5)
           [] m = "BMC_Glow" -> add_property(instance, "Material", 288)
           [] m = "BMC_Metallic" -> add_property(instance, "Material", 1088)
           [] m = "BMC_Hologram" -> add_property(instance, "Material", 1584)
           [] m = "BMC_Glass" ->
                add_property(instance, "Transparency", 10 - brick.material_intensity)
           [] OTHER -> instance
    ELSE add_property(instance, "Transparency", 10)

\* lines 169..172
write_collision(instance, brick) ==
    IF ~brick.collision.player THEN add_property(instance, "CanCollide", FALSE)
    ELSE instance

\* lines 177..220
write_components(instance, brick, color_value) ==
    IF brick.components.BCD_PointLight.present
    THEN LET component == brick.components.BCD_PointLight.bag
             l1 == add_property(InstanceBuilder_new("PointLight"), "Brightness",
                     component_property(component, "Brightness", "Float", UFloat(100)).f \div 10)
             l2 == add_property(l1, "Range",
                     component_property(component, "Range", "Float", UFloat(1000)).f \div 10)
             l3 == add_property(l2, "Shadows",
                     component_property(component, "bCastShadows", "Boolean", UBoolean(FALSE)).b)
             l4 == IF component["bUseBrickColor"] = UBoolean(TRUE)
                   THEN add_property(l3, "Color", color_value)
                   ELSE add_property(l3, "Color",
                          Color3_new(component_property(component, "Color", "Color",
                                                        UColor(<<255, 255, 255>>)).c))
         IN add_child(instance, l4)
    ELSE instance

\* lines 222..224
merge_properties(instance, properties) ==
    [instance EXCEPT !.props = properties @@ @]

to_instance(self, save, brick) ==
    LET i1 == add_property(InstanceBuilder_new(self.class), "Size", self.size)
        i2 == add_property(i1, "CFrame",
                CFrame_from(mul(from_rotation(brick.position[1], brick.position[3],
                                              brick.position[2], mat_comp(brick)),
                                self.offset)))
        color_value == Color3_new(part_color(self, save, brick))
        i3 == add_property(i2, "Color", color_value)
        i4 == write_material(i3, save, brick)
        i5 == write_collision(i4, brick)
        i6 == add_property(i5, "Anchored", TRUE)
        i7 == write_components(i6, brick, color_value)
    IN merge_properties(i7, self.properties)

\* ------------------------------------------------------------ convert_brick
\* the size divided by the position's scale, 10, instead of 5
normalized_size_tenth(brick) ==
    IF brick.size.kind = "Empty" THEN <<0, 0, 0>>
    ELSE <<(brick.size.x * 10) \div 10, (brick.size.y * 10) \div 10, (brick.size.z * 10) \div 10>>

\* lines 241..244, in tenths of a stud
normalized_size(brick) ==
    IF brick.size.kind = "Empty" THEN <<0, 0, 0>>
    ELSE <<(brick.size.x * 10) \div 5, (brick.size.y * 10) \div 5, (brick.size.z * 10) \div 5>>

\* the chain shared by the round arms (lines 348..353, 358..363, 368..373, 378..383)
round_chain(self) ==
    property(property(property(property(property(
        cf(self, rz(1)),
        "Shape", 2), "TopSurface", 0), "BottomSurface", 0), "LeftSurface", 4),
        "RightSurface", 3)

\* the match of lines 246..387: the PartDefs of each arm, in order; `some` is
\* FALSE for the arm `_ => return None`.  s is the normalized size, s[1] = size.0
rule(asset, s) ==
    CASE asset = "PB_DefaultBrick" ->
           [some |-> TRUE, parts |-> <<size(PartDef_default, s[1], s[3], s[2])>>]
      [] asset = "PB_DefaultTile" ->
           [some |-> TRUE, parts |->
             <<property(size(PartDef_default, s[1], s[3], s[2]), "TopSurface", 0)>>]
      [] asset = "PB_DefaultRamp" ->
           [some |-> TRUE, parts |->
             << offset(size(PartDef_new("Part"), 10, s[3], s[2]), s[1] \div 2 - 5, 0, 0),
                cf(offset(size(PartDef_new("WedgePart"), s[2], s[3] - 2, s[1] - 10), -5, 1, 0),
                   ry(1)),
                offset(size(PartDef_new("Part"), s[1] - 10, 2, s[2]),
                       -5, -(s[3] \div 2) + 1, 0) >>]
      [] asset = "PB_DefaultRampInverted" ->
           [some |-> TRUE, parts |->
             << offset(size(PartDef_new("Part"), 10, s[3], s[2]), s[1] \div 2 - 5, 0, 0),
                cf(cf(offset(size(PartDef_new("WedgePart"), s[2], s[3] - 2, s[1] - 10),
                             -5, -1, 0),
                      rx(2)), ry(1)),
                offset(size(PartDef_new("Part"), s[1] - 10, 2, s[2]),
                       -5, (s[3] \div 2) - 1, 0) >>]
      [] asset = "PB_DefaultWedge" ->
           [some |-> TRUE, parts |->
             << cf(offset(size(PartDef_new("WedgePart"), s[2], s[3] - 2, s[1]), 0, 1, 0),
                   ry(1)),
                cf(offset(size(PartDef_new("Part"), s[2], 2, s[1]),
                          0, -(s[3] \div 2) + 1, 0),
                   ry(1)) >>]
      [] asset = "PB_DefaultSideWedge" ->
           [some |-> TRUE, parts |->
             << property(property(property(property(
                    cf(size(PartDef_new("WedgePart"), s[3], s[1], s[2]), rz(1)),
                    "TopSurface", 0), "BottomSurface", 0), "LeftSurface", 4),
                    "RightSurface", 3) >>]
      [] asset = "PB_DefaultSideWedgeTile" ->
           [some |-> TRUE, parts |->
             << property(property(property(property(
                    cf(size(PartDef_new("WedgePart"), s[3], s[1], s[2]), rz(1)),
                    "TopSurface", 0), "BottomSurface", 0), "LeftSurface", 4),
                    "RightSurface", 0) >>]
      [] asset = "PB_DefaultMicroBrick" ->
           [some |-> TRUE, parts |->
             << property(property(size(PartDef_new("Part"), s[1], s[3], s[2]),
                    "TopSurface", 0), "BottomSurface", 0) >>]
      [] asset = "PB_DefaultMicroWedge" ->
           [some |-> TRUE, parts |->
             << property(
                    cf(cf(cf(size(PartDef_new("WedgePart"), s[3], s[2], s[1]), rz(1)),
                          rx(-1)), ry(2)),
                    "BottomSurface", 0) >>]
      [] asset = "PB_DefaultMicroWedgeInnerCorner" ->
           [some |-> TRUE, parts |->
             << property(cf(size(PartDef_new("WedgePart"), s[1], s[3], s[2]), ry(1)),
                         "BottomSurface", 0),
                property(size(PartDef_new("WedgePart"), s[2], s[3], s[1]),
                         "BottomSurface", 0) >>]
      [] asset = "B_2x2_Round" ->
           [some |-> TRUE, parts |-> <<round_chain(size(PartDef_new("Part"), 12, 20, 20))>>]
      [] asset = "B_2x2F_Round" ->
           [some |-> TRUE, parts |-> <<round_chain(size(PartDef_new("Part"), 4, 20, 20))>>]
      [] asset \in {"B_1x1_Round", "B_1x1_Cone"} ->
           [some |-> TRUE, parts |-> <<round_chain(size(PartDef_new("Part"), 12, 10, 10))>>]
      [] asset = "B_1x1F_Round" ->
           [some |-> TRUE, parts |-> <<round_chain(size(PartDef_new("Part"), 12, 10, 10))>>]
      [] OTHER -> [some |-> FALSE, parts |-> <<>>]

\* convert_brick with the colour and material lookups hoisted above the match
convert_brick_eager(brick, save) ==
    IF brick.asset_name_index >= Len(save.header2.brick_assets)
       \/ to_instance_panics(PartDef_default, save, brick)
    THEN [kind |-> "Panic", instances |-> <<>>]
    ELSE LET r == rule(save.header2.brick_assets[brick.asset_name_index + 1],
                       normalized_size(brick))
         IN IF ~r.some THEN [kind |-> "None", instances |-> <<>>]
            ELSE [kind |-> "Some",
                  instances |-> [k \in 1..Len(r.parts) |-> to_instance(r.parts[k], save, brick)]]

\* Option<Vec<InstanceBuilder>>, or the panic of an index out of range: the asset
\* table (line 239), or an index inside some to_instance of the vec!
convert_brick(brick, save) ==
    IF brick.asset_name_index >= Len(save.header2.brick_assets)
    THEN [kind |-> "Panic", instances |-> <<>>]
    ELSE LET asset == save.header2.brick_assets[brick.asset_name_index + 1]
             r == rule(asset, normalized_size(brick))
         IN IF ~r.some THEN [kind |-> "None", instances |-> <<>>]
            ELSE IF \E k \in 1..Len(r.parts) : to_instance_panics(r.parts[k], save, brick)
            THEN [kind |-> "Panic", instances |-> <<>>]
            ELSE [kind |-> "Some",
                  instances |-> [k \in 1..Len(r.parts) |-> to_instance(r.parts[k], save, brick)]]

\* ------------------------------------------------------------------ inputs
\* the shared tables of a save (header2) and its annotation text (header1)
Header1 == [description |-> "castle", author |-> "voximity"]

Header2 ==
    [brick_assets |->
       <<"PB_DefaultBrick", "PB_DefaultTile", "PB_DefaultRamp", "PB_DefaultRampInverted",
         "PB_DefaultWedge", "PB_DefaultSideWedge", "PB_DefaultSideWedgeTile",
         "PB_DefaultMicroBrick", "PB_DefaultMicroWedge", "PB_DefaultMicroWedgeInnerCorner",
         "B_2x2_Round", "B_2x2F_Round", "B_1x1_Round", "B_1x1_Cone", "B_1x1F_Round",
         "PB_DefaultPole">>,
     materials |->
       <<"BMC_Plastic", "BMC_Ghost", "BMC_Ghost_Fail", "BMC_Glow", "BMC_Metallic",
         "BMC_Hologram", "BMC_Glass">>,
     colors |-> << <<255, 255, 255>>, <<128, 64, 0>> >>]

NoLight ==
    [BCD_PointLight |->
       [present |-> FALSE,
        bag |-> [Brightness |-> Absent, Range |-> Absent, bCastShadows |-> Absent,
                 bUseBrickColor |-> Absent, Color |-> Absent]]]

Light(bag) == [BCD_PointLight |-> [present |-> TRUE, bag |-> bag]]

EmptyBag == NoLight.BCD_PointLight.bag

\* the component bags the saves of the loop specification carry
LightBags ==
    { EmptyBag,
      [EmptyBag EXCEPT !.bUseBrickColor = UBoolean(FALSE)],
      [EmptyBag EXCEPT !.bUseBrickColor = UBoolean(TRUE)],
      [Brightness |-> UFloat(50), Range |-> UFloat(300), bCastShadows |-> UBoolean(TRUE),
       bUseBrickColor |-> UBoolean(FALSE), Color |-> UColor(<<128, 64, 0>>)] }

IndexColor(i) == [kind |-> "Index", idx |-> i, c |-> <<0, 0, 0>>]
UniqueColor(c) == [kind |-> "Unique", idx |-> 0, c |-> c]
Procedural(x, y, z) == [kind |-> "Procedural", x |-> x, y |-> y, z |-> z]
EmptySize == [kind |-> "Empty", x |-> 0, y |-> 0, z |-> 0]

\* a visible default brick, 10 x 10 x 10, at the origin, ZPositive / Deg180
BaseBrick ==
    [position |-> <<0, 0, 0>>, direction |-> 4, rotation |-> 2,
     size |-> Procedural(10, 10, 10), asset_name_index |-> 0,
     color |-> IndexColor(0), material_index |-> 0, material_intensity |-> 5,
     visibility |-> TRUE, collision |-> [player |-> TRUE], components |-> NoLight]

AssetIndices == 0..Len(Header2.brick_assets)
MaterialIndices == 0..Len(Header2.materials)

\* bricks of the loop specification: every mix of good and bad indices, and lights
LoopBricks ==
    { [BaseBrick EXCEPT !.asset_name_index = a, !.color = IndexColor(c),
                        !.material_index = m, !.visibility = v] :
        a \in {0, 2, 15, 16}, c \in {1, 2}, m \in {1, 7}, v \in BOOLEAN }
    \cup
    { [BaseBrick EXCEPT !.asset_name_index = a, !.components = Light(bag),
                        !.size = sz, !.collision = [player |-> FALSE]] :
        a \in {0, 15}, bag \in LightBags, sz \in {Procedural(10, 10, 10), EmptySize} }

\* bricks of the orientation specification, all 10 x 10 x 10: every orientation,
\* position and asset; and every asset, material, intensity and visibility
OrientBricks ==
    { [BaseBrick EXCEPT !.direction = d, !.rotation = r, !.position = p,
                        !.asset_name_index = a, !.color = col] :
        d \in 0..5, r \in 0..3, p \in {<<0, 0, 0>>, <<10, 20, -30>>},
        a \in AssetIndices,
        col \in {IndexColor(0), IndexColor(1), UniqueColor(<<0, 64, 255>>)} }
    \cup
    { [BaseBrick EXCEPT !.direction = d, !.asset_name_index = a,
                        !.material_index = mi[1], !.material_intensity = mi[2],
                        !.visibility = v] :
        d \in {1, 4}, a \in AssetIndices,
        mi \in ((MaterialIndices \X {3}) \cup {<<6, 0>>, <<6, 10>>}),
        v \in BOOLEAN }

\* bricks of the size specification: every asset at every size the reader can give
SizeBricks ==
    { [BaseBrick EXCEPT !.asset_name_index = a, !.size = sz, !.rotation = r] :
        a \in AssetIndices, r \in {2, 3},
        sz \in {EmptySize} \cup
               { Procedural(x, y, z) : x \in 0..MaxDim, y \in 0..MaxDim, z \in 0..MaxDim } }

\* ------------------------------------------------------------------- main
VARIABLES save, next, model, stdout, pc

vars == <<save, next, model, stdout, pc>>

SeqsUpTo(S, n) == UNION { [1..k -> S] : k \in 0..n }

\* lines 27..45: the save is read whole, the root model holds the script
InitWith(brickSeqs) ==
    /\ save \in { [header1 |-> Header1, header2 |-> Header2, bricks |-> bs] : bs \in brickSeqs }
    /\ next = 1
    /\ model = add_child(InstanceBuilder_new("Model"),
                 add_property(with_name(InstanceBuilder_new("Script"), <<"brs2rbxl">>),
                              "Source", <<Header1.description, Header1.author>>))
    /\ stdout = <<>>
    /\ pc = "loop"

Init == InitWith(SeqsUpTo(LoopBricks, MaxBricks))

InitOrient == InitWith({ <<b>> : b \in OrientBricks })

InitSize == InitWith({ <<b>> : b \in SizeBricks })

brick == save.bricks[next]

\* the name of lines 50..53
brick_name(b) == <<save.header2.brick_assets[b.asset_name_index + 1], b.direction, b.rotation>>

\* what one iteration of the loop at lines 47..68 comes to
iteration(b) ==
    IF b.asset_name_index >= Len(save.header2.brick_assets)
    THEN [kind |-> "Panic", instances |-> <<>>]
    ELSE convert_brick(b, save)

\* lines 56..65
LoopSome ==
    /\ pc = "loop"
    /\ next <= Len(save.bricks)
    /\ iteration(brick).kind = "Some"
    /\ LET instances == iteration(brick).instances IN
         model' = IF Len(instances) = 1
                  THEN add_child(model, with_name(instances[1], brick_name(brick)))
                  ELSE add_child(model,
                         [with_name(InstanceBuilder_new("Model"), brick_name(brick))
                            EXCEPT !.children = instances])
    /\ next' = next + 1
    /\ UNCHANGED <<save, stdout, pc>>

\* line 66
LoopNone ==
    /\ pc = "loop"
    /\ next <= Len(save.bricks)
    /\ iteration(brick).kind = "None"
    /\ stdout' = Append(stdout, save.header2.brick_assets[brick.asset_name_index + 1])
    /\ next' = next + 1
    /\ UNCHANGED <<save, model, pc>>

\* a failed brick skipped instead of unwinding main
LoopPanic_skip ==
    /\ pc = "loop"
    /\ next <= Len(save.bricks)
    /\ iteration(brick).kind = "Panic"
    /\ next' = next + 1
    /\ UNCHANGED <<save, model, stdout, pc>>

\* an index out of range at line 48 or inside convert_brick unwinds main
LoopPanic ==
    /\ pc = "loop"
    /\ next <= Len(save.bricks)
    /\ iteration(brick).kind = "Panic"
    /\ pc' = "panic"
    /\ UNCHANGED <<save, next, model, stdout>>

\* lines 70..73
WriteModel ==
    /\ pc = "loop"
    /\ next > Len(save.bricks)
    /\ pc' = "done"
    /\ UNCHANGED <<save, next, model, stdout>>

Next == LoopSome \/ LoopNone \/ LoopPanic \/ WriteModel

Spec == Init /\ [][Next]_vars

SpecOrient == InitOrient /\ [][Next]_vars

SpecSize == InitSize /\ [][Next]_vars

\* ------------------------------------------------------- reading the output
\* the asset identifier of a brick whose asset-name index is in range
asset_of(b) == save.header2.brick_assets[b.asset_name_index + 1]

AssetInRange(b) == b.asset_name_index < Len(save.header2.brick_assets)

\* the identifiers of the arms of convert_brick's match
RuleAssets ==
    {"PB_DefaultBrick", "PB_DefaultTile", "PB_DefaultRamp", "PB_DefaultRampInverted",
     "PB_DefaultWedge", "PB_DefaultSideWedge", "PB_DefaultSideWedgeTile",
     "PB_DefaultMicroBrick", "PB_DefaultMicroWedge", "PB_DefaultMicroWedgeInnerCorner",
     "B_2x2_Round", "B_2x2F_Round", "B_1x1_Round", "B_1x1_Cone", "B_1x1F_Round"}

\* the primitives of a child of the root model: itself, or those of its group
PrimitivesOf(child) == IF child.class = "Model" THEN child.children ELSE <<child>>

\* a save of one brick whose conversion has added its child to the root model
OneResolved == Len(save.bricks) = 1 /\ next = 2 /\ Len(model.children) = 2

Mat3(m) == << <<m[1], m[2], m[3]>>, <<m[4], m[5], m[6]>>, <<m[7], m[8], m[9]>> >>

Identity3 == << <<1, 0, 0>>, <<0, 1, 0>>, <<0, 0, 1>> >>

\* the table entry of a direction and rotation, by arithmetic on the two numbers
EntryAt(d, r) == ORIENTATION_MAP[4 * d + r + 1]

\* ----------------------------------------------------------------------- C1
C1_Case(b) ==
    /\ b.visibility
    /\ b.direction = 0 /\ b.rotation = 0 /\ b.position = <<0, 0, 0>>
    /\ AssetInRange(b) /\ asset_of(b) = "PB_DefaultBrick"
    /\ b.size = Procedural(10, 10, 10)
    /\ b.color.kind = "Index" /\ b.color.idx < Len(save.header2.colors)

\* the palette of Header2 after the sRGB transfer, in thousandths
C1_Gamma(idx) == IF idx = 0 THEN <<1000, 1000, 1000>> ELSE <<736, 537, 0>>

C1_Yields(b, rot) ==
    /\ pc # "panic"
    /\ Len(model.children) = 2
    /\ LET c == model.children[2] IN
         /\ c.class = "Part"
         /\ c.props["Size"] = <<20, 20, 20>>
         /\ c.props["CFrame"] = [position |-> <<0, 0, 0>>, orientation |-> rot]
         /\ c.props["Color"] = C1_Gamma(b.color.idx)

\* C1 as claimed: the converted 10x10x10 default brick with direction 0, rotation 0
\* at the origin is one primitive of size (2,2,2) with the identity rotation, zero
\* translation and the gamma-converted palette colour.
C1_Original ==
    (Len(save.bricks) = 1 /\ next > 1 /\ C1_Case(save.bricks[1]))
        => C1_Yields(save.bricks[1], Identity3)

\* C1 as amended: the same brick, once converted, is one primitive of size (2,2,2),
\* zero translation and the gamma-converted palette colour, whose rotation matrix is
\* orientation-table entry 0, rows (0,1,0), (-1,0,0), (0,0,1).
C1_EndToEnd ==
    (Len(save.bricks) = 1 /\ next > 1 /\ C1_Case(save.bricks[1]))
        => C1_Yields(save.bricks[1], << <<0, 1, 0>>, <<-1, 0, 0>>, <<0, 0, 1>> >>)

C1_Witness ==
    /\ pc = "done" /\ Len(save.bricks) = 1 /\ C1_Case(save.bricks[1])
    /\ save.bricks[1].color.idx = 1
    /\ Len(model.children) = 2

\* ----------------------------------------------------------------------- C6
Column(m, j) == <<m[j], m[3 + j], m[6 + j]>>

Dot3(a, b) == a[1] * b[1] + a[2] * b[2] + a[3] * b[3]

Orthonormal(m) ==
    \A i \in 1..3 : \A j \in 1..3 :
        Dot3(Column(m, i), Column(m, j)) = (IF i = j THEN 1 ELSE 0)

IndexOf(d, r) == OrientationIndex([direction |-> d, rotation |-> r])

\* C6: each of the 24 table entries has unit columns that are pairwise orthogonal;
\* the index of every direction in [0,6) and rotation in [0,4) lies in 0..23, no two
\* pairs share an index, and the brick converted was placed with the entry at its
\* index.
C6_OrientationTable ==
    /\ Len(ORIENTATION_MAP) = 24
    /\ \A k \in 1..24 : Len(ORIENTATION_MAP[k]) = 9 /\ Orthonormal(ORIENTATION_MAP[k])
    /\ \A d \in 0..5 : \A r \in 0..3 : IndexOf(d, r) \in 0..23
    /\ Cardinality({ IndexOf(d, r) : d \in 0..5, r \in 0..3 }) = 24
    /\ \A k \in 1..Len(save.bricks) :
         /\ OrientationIndex(save.bricks[k]) \in 0..23
         /\ Orthonormal(mat_comp(save.bricks[k]))
    /\ (OneResolved /\ asset_of(save.bricks[1]) = "PB_DefaultBrick")
         => model.children[2].props["CFrame"].orientation
              = Mat3(EntryAt(save.bricks[1].direction, save.bricks[1].rotation))

C6_Witness ==
    /\ OneResolved /\ pc = "done"
    /\ save.bricks[1].direction = 5 /\ save.bricks[1].rotation = 3
    /\ asset_of(save.bricks[1]) = "PB_DefaultBrick"
    /\ model.children[2].props["CFrame"].orientation = Mat3(ORIENTATION_MAP[24])

\* ----------------------------------------------------------------------- C9
SideWedges == {"PB_DefaultSideWedge", "PB_DefaultSideWedgeTile"}

\* the transform of a primitive placed with the table entry of (d, r)
PlacedWith(b, d, r, local) ==
    CFrame_from(mul(from_rotation(b.position[1], b.position[3], b.position[2],
                                  EntryAt(d, r)),
                    local))

\* C9 as claimed: the single wedge of a side-wedge rule is resolved against the
\* table entry of (direction, (rotation + adjustment) mod 4) for a non-zero
\* quarter-turn adjustment (with the rule's local offset, or with none).
C9_Original ==
    (OneResolved /\ asset_of(save.bricks[1]) \in SideWedges) =>
        LET b == save.bricks[1]
            c == model.children[2]
            local == rule(asset_of(b), normalized_size(b)).parts[1].offset
        IN /\ c.class = "WedgePart"
           /\ \E adj \in 1..3 :
                \/ c.props["CFrame"] = PlacedWith(b, b.direction, (b.rotation + adj) % 4, local)
                \/ c.props["CFrame"] = PlacedWith(b, b.direction, (b.rotation + adj) % 4,
                                                  CoordinateFrame_default)

\* C9 as amended: every primitive of a brick is resolved against the table entry at
\* (direction<<2)|rotation, the brick's nominal one: there is no rotation adjustment.
\* A side-wedge rule emits a single wedge whose local offset is a quarter turn about
\* the local z axis, composed on the right of the brick's placement.
C9_NominalEntry ==
    OneResolved =>
        LET b == save.bricks[1]
            ps == PrimitivesOf(model.children[2])
            defs == rule(asset_of(b), normalized_size(b)).parts
        IN /\ Len(ps) = Len(defs)
           /\ \A k \in 1..Len(ps) :
                ps[k].props["CFrame"] = PlacedWith(b, b.direction, b.rotation, defs[k].offset)
           /\ asset_of(b) \in SideWedges =>
                /\ Len(ps) = 1 /\ ps[1].class = "WedgePart"
                /\ ps[1].props["CFrame"].orientation =
                     rotation_matrix(mul(from_rotation(0, 0, 0, EntryAt(b.direction, b.rotation)),
                                         << <<0, -1, 0, 0>>, <<1, 0, 0, 0>>,
                                            <<0, 0, 1, 0>>, <<0, 0, 0, 1>> >>))

C9_Witness ==
    /\ OneResolved /\ pc = "done"
    /\ asset_of(save.bricks[1]) = "PB_DefaultSideWedge"
    /\ save.bricks[1].direction = 2 /\ save.bricks[1].rotation = 3
    /\ model.children[2].class = "WedgePart"

\* ---------------------------------------------------------------------- C10
\* C10: every primitive resolved for an invisible brick ends with Transparency 1,
\* whatever its rule, material and intensity.
C10_InvisibleTransparent ==
    (OneResolved /\ ~save.bricks[1].visibility) =>
        \A k \in 1..Len(PrimitivesOf(model.children[2])) :
            LET p == PrimitivesOf(model.children[2])[k] IN
              /\ "Transparency" \in DOMAIN p.props
              /\ p.props["Transparency"] = 10

C10_Witness ==
    /\ OneResolved /\ pc = "done"
    /\ ~save.bricks[1].visibility
    /\ save.header2.materials[save.bricks[1].material_index + 1] = "BMC_Ghost"
    /\ asset_of(save.bricks[1]) = "PB_DefaultRamp"
    /\ Len(PrimitivesOf(model.children[2])) = 3

\* ------------------------------------------------------ classes of bricks
Unmapped(b) == AssetInRange(b) /\ asset_of(b) \notin RuleAssets

Mapped(b) == AssetInRange(b) /\ asset_of(b) \in RuleAssets

BadColor(b) == b.color.kind = "Index" /\ b.color.idx >= Len(save.header2.colors)

BadMaterial(b) == b.material_index >= Len(save.header2.materials)

Malformed(b) == ~AssetInRange(b) \/ BadColor(b) \/ BadMaterial(b)

\* the asset names of the unmapped bricks among the first n, in order
RECURSIVE UnmappedNames(_)
UnmappedNames(n) ==
    IF n = 0 THEN <<>>
    ELSE IF Unmapped(save.bricks[n]) THEN Append(UnmappedNames(n - 1), asset_of(save.bricks[n]))
    ELSE UnmappedNames(n - 1)

MappedCount(n) == Cardinality({ k \in 1..n : Mapped(save.bricks[k]) })

\* ----------------------------------------------------------------------- C2
\* C2: a brick whose asset index is in range and whose asset has no arm in the match
\* never faults, whatever its other fields: it is reported and adds no child, so the
\* root holds one child per mapped brick passed and stdout one line per unmapped one.
C2_NoMapping ==
    /\ pc = "panic" => ~Unmapped(save.bricks[next])
    /\ stdout = UnmappedNames(next - 1)
    /\ Len(model.children) = 1 + MappedCount(next - 1)

C2_Witness ==
    /\ pc = "done"
    /\ \E k \in 1..Len(save.bricks) :
         /\ Unmapped(save.bricks[k])
         /\ BadColor(save.bricks[k]) /\ BadMaterial(save.bricks[k])
         /\ save.bricks[k].visibility
    /\ \E k \in 1..Len(save.bricks) :
         Unmapped(save.bricks[k]) /\ save.bricks[k].components.BCD_PointLight.present
    /\ Len(stdout) = 2

\* ----------------------------------------------------------------------- C3
\* C3 as claimed: a save with any brick whose colour, material or asset index is out
\* of range never reaches the end of the run.
C3_Original ==
    (\E k \in 1..Len(save.bricks) : Malformed(save.bricks[k])) => pc # "done"

\* the bricks whose out-of-range index is looked up
Fatal(b) ==
    \/ ~AssetInRange(b)
    \/ Mapped(b) /\ (BadColor(b) \/ (b.visibility /\ BadMaterial(b)))

\* C3 as amended: the run aborts at a brick whose asset index is out of range, or
\* whose asset has a rule and whose palette colour index is out of range or which is
\* visible with a material index out of range: the loop never passes such a brick,
\* the only step it can take there is the panic, and the run never reaches its end.
C3_FatalAborts ==
    /\ \A k \in 1..(next - 1) : ~Fatal(save.bricks[k])
    /\ pc = "done" => \A k \in 1..Len(save.bricks) : ~Fatal(save.bricks[k])
    /\ (pc = "loop" /\ next <= Len(save.bricks) /\ Fatal(save.bricks[next]))
         => iteration(save.bricks[next]).kind = "Panic"

C3_Witness ==
    /\ pc = "panic" /\ next = 2
    /\ Unmapped(save.bricks[1]) /\ BadColor(save.bricks[1])
    /\ Mapped(save.bricks[2]) /\ save.bricks[2].visibility
    /\ BadMaterial(save.bricks[2]) /\ ~BadColor(save.bricks[2])

\* ----------------------------------------------------------------------- C4
\* the child main adds for a mapped brick, from that brick alone
ChildOf(b) ==
    LET instances == convert_brick(b, save).instances IN
    IF Len(instances) = 1 THEN with_name(instances[1], brick_name(b))
    ELSE [with_name(InstanceBuilder_new("Model"), brick_name(b)) EXCEPT !.children = instances]

RECURSIVE MappedChildren(_)
MappedChildren(n) ==
    IF n = 0 THEN <<>>
    ELSE IF Mapped(save.bricks[n]) THEN Append(MappedChildren(n - 1), ChildOf(save.bricks[n]))
    ELSE MappedChildren(n - 1)

\* C4: a save whose bricks all have in-range indices is processed to its end: no
\* fault, every unmapped brick reported, and the root's children after the script are
\* the children of the mapped bricks, one each, in input order.
C4_Original ==
    (\A k \in 1..Len(save.bricks) : ~Malformed(save.bricks[k])) =>
        /\ pc # "panic"
        /\ pc = "done" =>
             /\ stdout = UnmappedNames(Len(save.bricks))
             /\ SubSeq(model.children, 2, Len(model.children)) = MappedChildren(Len(save.bricks))

\* ----------------------------------------------------------------------- C5
\* C5: no fault is raised while resolving a brick whose asset, palette and material
\* indices are in range, whatever its light component holds.
C5_Original ==
    pc = "panic" => Malformed(save.bricks[next])

\* ----------------------------------------------------------------------- C7
Abs(n) == IF n < 0 THEN -n ELSE n

\* a CFrame as a 4x4 matrix
Frame(c) ==
    << <<c.orientation[1][1], c.orientation[1][2], c.orientation[1][3], c.position[1]>>,
       <<c.orientation[2][1], c.orientation[2][2], c.orientation[2][3], c.position[2]>>,
       <<c.orientation[3][1], c.orientation[3][2], c.orientation[3][3], c.position[3]>>,
       <<0, 0, 0, 1>> >>

\* the inverse of a rigid transform whose rotation block is orthonormal
Inverse(m) ==
    << <<m[1][1], m[2][1], m[3][1], -(m[1][1] * m[1][4] + m[2][1] * m[2][4] + m[3][1] * m[3][4])>>,
       <<m[1][2], m[2][2], m[3][2], -(m[1][2] * m[1][4] + m[2][2] * m[2][4] + m[3][2] * m[3][4])>>,
       <<m[1][3], m[2][3], m[3][3], -(m[1][3] * m[1][4] + m[2][3] * m[2][4] + m[3][3] * m[3][4])>>,
       <<0, 0, 0, 1>> >>

\* a primitive's transform in the frame of its brick
LocalFrame(b, p) ==
    mul(Inverse(from_rotation(b.position[1], b.position[3], b.position[2],
                              EntryAt(b.direction, b.rotation))),
        Frame(p.props["CFrame"]))

\* the extent of a primitive's box along brick axis i, its axes permuted by its
\* local rotation
Extent(b, p, i) ==
    LET l == LocalFrame(b, p) s == p.props["Size"] IN
    Abs(l[i][1]) * s[1] + Abs(l[i][2]) * s[2] + Abs(l[i][3]) * s[3]

\* twice the low and high ends of that box along axis i
Lo2(b, p, i) == 2 * LocalFrame(b, p)[i][4] - Extent(b, p, i)

Hi2(b, p, i) == 2 * LocalFrame(b, p)[i][4] + Extent(b, p, i)

\* the parent's extents in tenths of a stud: length x/5, height z/5
ParentLength(b) == 2 * b.size.x

ParentHeight(b) == 2 * b.size.z

\* all segments of the rule have positive extent
PositiveSegments(b) ==
    /\ b.size.kind = "Procedural"
    /\ b.size.y >= 1 /\ b.size.z >= 2
    /\ IF asset_of(b) = "PB_DefaultWedge" THEN b.size.x >= 1 ELSE b.size.x >= 6

\* C7: the segments of a ramp, inverted ramp or wedge with positive extents tile
\* the parent's box: along the length the wedge and the base (where the rule has one)
\* meet end to end and span [-sx/2, sx/2]; along the height the wedge, of height
\* sz - 0.2, and the 0.2 plate meet and span [-sz/2, sz/2].
C7_SegmentsTile ==
    (OneResolved /\ PositiveSegments(save.bricks[1])
       /\ asset_of(save.bricks[1]) \in {"PB_DefaultRamp", "PB_DefaultRampInverted", "PB_DefaultWedge"})
    => LET b == save.bricks[1]
           ps == PrimitivesOf(model.children[2])
           wedge == IF asset_of(b) = "PB_DefaultWedge" THEN ps[1] ELSE ps[2]
           plate == IF asset_of(b) = "PB_DefaultWedge" THEN ps[2] ELSE ps[3]
       IN /\ wedge.class = "WedgePart" /\ plate.class = "Part"
          /\ Extent(b, wedge, 2) = ParentHeight(b) - 2
          /\ Extent(b, plate, 2) = 2
          /\ Lo2(b, wedge, 1) = -ParentLength(b)
          /\ IF asset_of(b) = "PB_DefaultWedge"
             THEN Len(ps) = 2 /\ Hi2(b, wedge, 1) = ParentLength(b)
             ELSE /\ Len(ps) = 3 /\ ps[1].class = "Part"
                  /\ Hi2(b, wedge, 1) = Lo2(b, ps[1], 1)
                  /\ Hi2(b, ps[1], 1) = ParentLength(b)
          /\ IF asset_of(b) = "PB_DefaultRampInverted"
             THEN /\ Lo2(b, wedge, 2) = -ParentHeight(b)
                  /\ Hi2(b, wedge, 2) = Lo2(b, plate, 2)
                  /\ Hi2(b, plate, 2) = ParentHeight(b)
             ELSE /\ Lo2(b, plate, 2) = -ParentHeight(b)
                  /\ Hi2(b, plate, 2) = Lo2(b, wedge, 2)
                  /\ Hi2(b, wedge, 2) = ParentHeight(b)

C7_Witness ==
    /\ OneResolved /\ pc = "done"
    /\ asset_of(save.bricks[1]) = "PB_DefaultRampInverted"
    /\ save.bricks[1].size = Procedural(7, 3, 4)
    /\ save.bricks[1].rotation = 3
    /\ Len(PrimitivesOf(model.children[2])) = 3

\* ----------------------------------------------------------------------- C8
\* C8: the size of every primitive emitted for a brick has no negative component.
C8_Original ==
    OneResolved =>
        \A k \in 1..Len(PrimitivesOf(model.children[2])) :
            \A i \in 1..3 : PrimitivesOf(model.children[2])[k].props["Size"][i] >= 0

\* ---------------------------------------------------------------------- C11
\* a rigid transform as a rotation block r and a translation t
MatVec(r, v) ==
    <<r[1][1] * v[1] + r[1][2] * v[2] + r[1][3] * v[3],
      r[2][1] * v[1] + r[2][2] * v[2] + r[2][3] * v[3],
      r[3][1] * v[1] + r[3][2] * v[2] + r[3][3] * v[3]>>

MatCol(r, j) == <<r[1][j], r[2][j], r[3][j]>>

MatMat(a, b) ==
    LET c1 == MatVec(a, MatCol(b, 1))
        c2 == MatVec(a, MatCol(b, 2))
        c3 == MatVec(a, MatCol(b, 3))
    IN << <<c1[1], c2[1], c3[1]>>, <<c1[2], c2[2], c3[2]>>, <<c1[3], c2[3], c3[3]>> >>

\* a then b in a's local frame: rotation a.r * b.r, translation a.t + a.r * b.t
Compose(a, b) ==
    LET v == MatVec(a.r, b.t) IN
    [r |-> MatMat(a.r, b.r), t |-> <<a.t[1] + v[1], a.t[2] + v[2], a.t[3] + v[3]>>]

Translate(x, y, z) == [r |-> Identity3, t |-> <<x, y, z>>]

Rotate(m) == [r |-> m, t |-> <<0, 0, 0>>]

\* the rotations the rules call, as matrices
QuarterY == Rotate(<< <<0, 0, 1>>, <<0, 1, 0>>, <<-1, 0, 0>> >>)
HalfY == Rotate(<< <<-1, 0, 0>>, <<0, 1, 0>>, <<0, 0, -1>> >>)
HalfX == Rotate(<< <<1, 0, 0>>, <<0, -1, 0>>, <<0, 0, -1>> >>)
BackQuarterX == Rotate(<< <<1, 0, 0>>, <<0, 0, 1>>, <<0, -1, 0>> >>)
QuarterZ == Rotate(<< <<0, -1, 0>>, <<1, 0, 0>>, <<0, 0, 1>> >>)

\* the offset and rotation calls of each PartDef of a rule, in call order, for a
\* brick of procedural size (x, y, z): half the length is x tenths, half the height z
CallsOf(b) ==
    LET a == asset_of(b) hx == b.size.x hz == b.size.z IN
    CASE a = "PB_DefaultRamp" ->
           << <<Translate(hx - 5, 0, 0)>>,
              <<Translate(-5, 1, 0), QuarterY>>,
              <<Translate(-5, 1 - hz, 0)>> >>
      [] a = "PB_DefaultRampInverted" ->
           << <<Translate(hx - 5, 0, 0)>>,
              <<Translate(-5, -1, 0), HalfX, QuarterY>>,
              <<Translate(-5, hz - 1, 0)>> >>
      [] a = "PB_DefaultWedge" ->
           << <<Translate(0, 1, 0), QuarterY>>,
              <<Translate(0, 1 - hz, 0), QuarterY>> >>
      [] a = "PB_DefaultMicroWedge" -> << <<QuarterZ, BackQuarterX, HalfY>> >>
      [] a = "PB_DefaultMicroWedgeInnerCorner" -> << <<QuarterY>>, <<>> >>
      [] a \in {"PB_DefaultBrick", "PB_DefaultTile", "PB_DefaultMicroBrick"} -> << <<>> >>
      [] OTHER -> << <<QuarterZ>> >>

\* c1 * c2 * ... * cn, each later call composed on the right
RECURSIVE ProductOf(_, _)
ProductOf(calls, n) ==
    IF n = 0 THEN Translate(0, 0, 0)
    ELSE Compose(ProductOf(calls, n - 1), calls[n])

\* C11: the transform resolved for a PartDef built by the calls c1, ..., cn is the
\* brick's placement composed with the product c1 * ... * cn taken left to right:
\* its rotation is R * R_local and its position (px/10, pz/10, py/10) + R * t_local,
\* R the table entry of the brick; read back in the brick's frame it is that product.
C11_Composition ==
    OneResolved =>
        LET b == save.bricks[1]
            ps == PrimitivesOf(model.children[2])
            calls == CallsOf(b)
            R == Mat3(EntryAt(b.direction, b.rotation))
        IN /\ Len(ps) = Len(calls)
           /\ \A k \in 1..Len(ps) :
                LET local == ProductOf(calls[k], Len(calls[k]))
                    v == MatVec(R, local.t)
                    c == ps[k].props["CFrame"]
                IN /\ c.orientation = MatMat(R, local.r)
                   /\ c.position = <<b.position[1] + v[1], b.position[3] + v[2],
                                     b.position[2] + v[3]>>
                   /\ rotation_matrix(LocalFrame(b, ps[k])) = local.r
                   /\ position(LocalFrame(b, ps[k])) = local.t

C11_Witness ==
    /\ OneResolved /\ pc = "done"
    /\ asset_of(save.bricks[1]) = "PB_DefaultRampInverted"
    /\ save.bricks[1].direction = 3 /\ save.bricks[1].rotation = 1
    /\ save.bricks[1].position = <<10, 20, -30>>
    /\ LET c == PrimitivesOf(model.children[2])[2].props["CFrame"] IN
         /\ c.position # <<10, -30, 20>>
         /\ c.orientation # Mat3(EntryAt(3, 1))

====
